---- MODULE Spec2Model ----
(***************************************************************************)
(* Model of src/etl_job.py: the module-level script (fetch of the export   *)
(* listing, lines 92-99, and the trigger, lines 269-272) and the pipeline  *)
(* process_data (lines 234-266) with the stages it calls.                  *)
(*                                                                         *)
(* A run is one execution of the script.  The network, the archive, the    *)
(* boundary dataset, the object store and the database are the             *)
(* environment: what they deliver, and whether they raise, is chosen with  *)
(* \E in the action that calls them.                                       *)
(***************************************************************************)
EXTENDS Integers, Sequences, FiniteSets, TLC

VARIABLES
    pc,              \* position of the script / of process_data
    export_data_url, \* line 96/99: "unset", "None" or "url"
    zip_content,     \* line 245: what download_file returned
    csv_content,     \* line 249: what extract_content_from_zip returned
    df,              \* line 253: the table process_data holds (mutated in place by the gate)
    gate_arg,        \* the table as it was when handed to data_quality_checks
    gate_ret,        \* "unset", "True", "False" or "KeyError" (raised)
    us_events_df,    \* line 260: what geospatial_processing returned
    calls,           \* the stage functions invoked so far, in order
    s3_calls,        \* upload_to_s3 invocations: <<[df, key, ok]>>
    sql_calls,       \* push_to_postgis invocations: <<[rows, ok]>>
    failed,          \* stages that failed (each logs an error or yields nothing)
    exception,       \* the uncaught exception that ended the script, or "none"
    exit_status      \* completion status of the script: -1 while running

vars == <<pc, export_data_url, zip_content, csv_content, df, gate_arg, gate_ret,
          us_events_df, calls, s3_calls, sql_calls, failed, exception, exit_status>>

(***************************************************************************)
(* Bounds of the model.                                                    *)
(***************************************************************************)
MaxRows == 3
MaxId == 2

(***************************************************************************)
(* Program constants.                                                      *)
(***************************************************************************)
\* pandas' null (NaN): an empty field of the payload
NaN == 0
\* line 159: the column count the gate expects
ExpectedCols == 11
\* line 134: the largest column position the projection selects
LastPosition == 60
\* line 256: the fixed key of the quarantine export
QuarantineKey == "data_quality_issues.csv"
\* no statement of transform_data raises
NoFault == "none"
\* lines 138-141: the enrichment steps, in the order they run
EnrichSteps == <<"EventCode", "EventBaseCode", "EventRootCode", "ActionGeo_CountryCode">>

(***************************************************************************)
(* Inputs the environment can deliver.                                     *)
(***************************************************************************)
SeqUpTo(S, n) == UNION {[1..k -> S] : k \in 1..n}

Ids == NaN..MaxId
\* column counts of a payload: too few for the projection (10, 11) or enough (61)
RawCols == {10, 11, LastPosition + 1}

\* a row of the payload: field 0 (the event id), field 57 (long), field 56 (lat);
\* a payload with fewer columns has no coordinate fields
\* the (long, lat) pairs of the events: only in region A's box, in both boxes, in neither
Places == {<<1, 2>>, <<1, 1>>, <<2, 2>>}
FullRows == {[id |-> i, lon |-> p[1], lat |-> p[2]] : i \in Ids, p \in Places}
ShortRows == [id : Ids, lon : {NaN}, lat : {NaN}]
RowsOf(n) == IF n > LastPosition THEN FullRows ELSE ShortRows

NoContent == [kind |-> "unset", parseable |-> FALSE, ncols |-> 0, rows |-> <<>>]
Texts ==
    {[kind |-> "text", parseable |-> FALSE, ncols |-> 0, rows |-> <<>>]}
    \cup UNION {[kind : {"text"}, parseable : {TRUE}, ncols : {n},
                 rows : SeqUpTo(RowsOf(n), MaxRows)] : n \in RawCols}
EmptyText == [NoContent EXCEPT !.kind = "empty"]

\* an archive: corrupt, or holding one text file (possibly empty)
Archives == [valid : {FALSE}, text : {NoContent}]
            \cup [valid : {TRUE}, text : Texts \cup {EmptyText}]

\* boundary polygons: axis-aligned boxes in (long, lat), open interior
RegionA == [name |-> "A", lonMin |-> 0, lonMax |-> 2, latMin |-> 0, latMax |-> 3]
RegionB == [name |-> "B", lonMin |-> 0, lonMax |-> 3, latMin |-> 0, latMax |-> 2]
BoundarySets == {<<RegionA>>, <<RegionB>>, <<RegionA, RegionB>>}

NoTable == [kind |-> "unset", ncols |-> 0, keyed |-> FALSE, enriched |-> {}, rows |-> <<>>]
NoEvents == [kind |-> "unset", boundaries |-> <<>>, rows |-> <<>>]

(***************************************************************************)
(* The stages, as functions of their argument and of what the environment  *)
(* does during the call.                                                   *)
(***************************************************************************)
CorruptArchive == [valid |-> FALSE, text |-> NoContent]
NoBytes == [kind |-> "unset", archive |-> CorruptArchive]
Bodies == {[NoBytes EXCEPT !.kind = "empty"]} \cup [kind : {"bytes"}, archive : Archives]
Responses == {[status |-> "error", body |-> NoBytes]} \cup [status : {"ok"}, body : Bodies]

\* lines 82-89: the body of the response, or None on a RequestException
download_file(response) ==
    IF response.status = "error"
    THEN [NoBytes EXCEPT !.kind = "None"]
    ELSE response.body

\* lines 111-117: the decoded text of the first member, or None on any exception
extract_content_from_zip(zip) ==
    IF zip.archive.valid
    THEN zip.archive.text
    ELSE [NoContent EXCEPT !.kind = "None"]

\* mutant: only None stops the run, an empty result is passed on
Falsy_onlyNone(x) == x.kind = "None"

\* Python's `not x` for bytes / str / None (lines 246, 250)
Falsy(x) == x.kind \in {"None", "empty"}

Range(s) == {s[i] : i \in DOMAIN s}
TransformFaults == {NoFault, "read_csv"} \cup Range(EnrichSteps)

\* the enrichment steps that completed before step `fault` raised (all, if none raised)
EnrichedBefore(fault) ==
    IF fault \in Range(EnrichSteps)
    THEN {EnrichSteps[i] : i \in {j \in DOMAIN EnrichSteps :
                                   \E k \in DOMAIN EnrichSteps : EnrichSteps[k] = fault /\ j < k}}
    ELSE Range(EnrichSteps)

\* lines 129-146.  `fault` is the statement the environment makes raise.
\*  - read_csv raises: the handler's `return df` reads an unbound local and
\*    raises UnboundLocalError out of transform_data;
\*  - iloc raises IndexError (position 60 absent): the handler returns df as
\*    read_csv left it, the unprojected table with its positional labels;
\*  - an enrichment step raises: the handler returns df with the earlier
\*    steps applied.
transform_data(content, fault) ==
    IF ~content.parseable \/ fault = "read_csv"
    THEN [raised |-> "UnboundLocalError", error |-> TRUE, df |-> NoTable]
    ELSE IF content.ncols <= LastPosition
    THEN [raised |-> "none", error |-> TRUE,
          df |-> [kind |-> "df", ncols |-> content.ncols, keyed |-> FALSE,
                  enriched |-> {}, rows |-> content.rows]]
    ELSE [raised |-> "none", error |-> fault # NoFault,
          df |-> [kind |-> "df", ncols |-> ExpectedCols, keyed |-> TRUE,
                  enriched |-> EnrichedBefore(fault), rows |-> content.rows]]

\* mutant: dropna without inplace=True leaves the caller's table as it was
dropna_notInPlace(rows) == rows

\* line 166: dropna(subset=['GLOBALEVENTID']) keeps the other rows in order
RECURSIVE dropna(_)
dropna(rows) ==
    IF rows = <<>> THEN <<>>
    ELSE IF Head(rows).id = NaN THEN dropna(Tail(rows))
    ELSE <<Head(rows)>> \o dropna(Tail(rows))

\* line 164: isnull().any()
isnull_any(rows) == \E i \in DOMAIN rows : rows[i].id = NaN

\* line 169: duplicated().any(): some row repeats the key of an earlier row
duplicated_any(rows) == \E i, j \in DOMAIN rows : i < j /\ rows[i].id = rows[j].id

\* mutant: the null-key rows are dropped before the column count is checked
data_quality_checks_dropFirst(t) ==
    LET kept == IF isnull_any(t.rows) THEN dropna(t.rows) ELSE t.rows
        out == [t EXCEPT !.rows = kept]
    IN IF t.ncols # ExpectedCols
       THEN [ret |-> "False", df |-> out]
       ELSE IF ~t.keyed
       THEN [ret |-> "KeyError", df |-> t]
       ELSE IF duplicated_any(kept)
       THEN [ret |-> "False", df |-> out]
       ELSE [ret |-> "True", df |-> out]

\* mutant: the duplicate check runs on the table before the null-key rows are
\* dropped (pandas' duplicated() counts a repeated NaN as a duplicate)
data_quality_checks_dupFirst(t) ==
    IF t.ncols # ExpectedCols
    THEN [ret |-> "False", df |-> t]
    ELSE IF ~t.keyed
    THEN [ret |-> "KeyError", df |-> t]
    ELSE IF duplicated_any(t.rows)
    THEN [ret |-> "False", df |-> [t EXCEPT !.rows = dropna(t.rows)]]
    ELSE [ret |-> "True", df |-> [t EXCEPT !.rows = dropna(t.rows)]]

\* lines 158-177: the returned value and the table as the call leaves it
data_quality_checks(t) ==
    IF t.ncols # ExpectedCols
    THEN [ret |-> "False", df |-> t]
    ELSE IF ~t.keyed
    THEN [ret |-> "KeyError", df |-> t]
    ELSE LET kept == IF isnull_any(t.rows) THEN dropna(t.rows) ELSE t.rows
             out == [t EXCEPT !.rows = kept]
         IN IF duplicated_any(kept)
            THEN [ret |-> "False", df |-> out]
            ELSE [ret |-> "True", df |-> out]

\* mutant: the point is built as (lat, long)
Point_latFirst(row) == [x |-> row.lat, y |-> row.lon]

\* line 191: Point(xy) for xy in zip(ActionGeo_Long, ActionGeo_Lat)
Point(row) == [x |-> row.lon, y |-> row.lat]

\* predicate="within": the point is in the polygon's interior
Within(pt, poly) ==
    /\ poly.lonMin < pt.x /\ pt.x < poly.lonMax
    /\ poly.latMin < pt.y /\ pt.y < poly.latMax

\* the matches of one row, in boundary order
RECURSIVE JoinRow(_, _, _)
JoinRow(row, polys, j) ==
    IF j > Len(polys) THEN <<>>
    ELSE (IF Within(Point(row), polys[j])
          THEN <<[id |-> row.id, lon |-> row.lon, lat |-> row.lat,
                  index_right |-> j, region |-> polys[j].name]>>
          ELSE <<>>) \o JoinRow(row, polys, j + 1)

\* line 193: gpd.sjoin(geo_df, us_counties, predicate="within"), an inner join
RECURSIVE sjoin(_, _)
sjoin(rows, polys) ==
    IF rows = <<>> THEN <<>>
    ELSE JoinRow(Head(rows), polys, 1) \o sjoin(Tail(rows), polys)

\* lines 189-199: the joined table, or None when anything in the stage raises
geospatial_processing(t, boundaries, fault) ==
    IF fault
    THEN [NoEvents EXCEPT !.kind = "None"]
    ELSE [kind |-> "df", boundaries |-> boundaries, rows |-> sjoin(t.rows, boundaries)]

(***************************************************************************)
(* The script.                                                             *)
(***************************************************************************)
Init ==
    /\ pc = "list"
    /\ export_data_url = "unset"
    /\ zip_content = NoBytes
    /\ csv_content = NoContent
    /\ df = NoTable
    /\ gate_arg = NoTable
    /\ gate_ret = "unset"
    /\ us_events_df = NoEvents
    /\ calls = <<>>
    /\ s3_calls = <<>>
    /\ sql_calls = <<>>
    /\ failed = {}
    /\ exception = "none"
    /\ exit_status = -1

\* the script ends normally: the interpreter exits with status 0
Return ==
    /\ pc' = "exit"
    /\ exit_status' = 0
    /\ exception' = exception

\* an exception nobody catches ends the script with a traceback and status 1
Raise(e) ==
    /\ pc' = "exit"
    /\ exit_status' = 1
    /\ exception' = e

Continue(next) ==
    /\ pc' = next
    /\ UNCHANGED <<exit_status, exception>>

\* lines 92-99: the listing is fetched; the URL is that of the first line
\* holding "export", None when no line does or the request fails
FetchList ==
    /\ pc = "list"
    /\ \E listing \in {"error", "no export line", "export line"} :
          /\ export_data_url' = IF listing = "export line" THEN "url" ELSE "None"
          /\ failed' = IF listing = "export line" THEN failed ELSE failed \cup {"url"}
    /\ Continue("main")
    /\ UNCHANGED <<zip_content, csv_content, df, gate_arg, gate_ret, us_events_df,
                   calls, s3_calls, sql_calls>>

\* lines 269-272: process_data runs only when a URL was found
Main ==
    /\ pc = "main"
    /\ IF export_data_url = "url" THEN Continue("download") ELSE Return
    /\ UNCHANGED <<export_data_url, zip_content, csv_content, df, gate_arg, gate_ret,
                   us_events_df, calls, s3_calls, sql_calls, failed>>

\* lines 245-247
Download ==
    /\ pc = "download"
    /\ \E response \in Responses :
          LET got == download_file(response) IN
          /\ zip_content' = got
          /\ calls' = Append(calls, "download_file")
          /\ IF Falsy(got)
             THEN failed' = failed \cup {"fetch"} /\ Return
             ELSE failed' = failed /\ Continue("extract")
    /\ UNCHANGED <<export_data_url, csv_content, df, gate_arg, gate_ret, us_events_df,
                   s3_calls, sql_calls>>

\* lines 249-251
Extract ==
    /\ pc = "extract"
    /\ LET got == extract_content_from_zip(zip_content) IN
          /\ csv_content' = got
          /\ calls' = Append(calls, "extract_content_from_zip")
          /\ IF Falsy(got)
             THEN failed' = failed \cup {"extract"} /\ Return
             ELSE failed' = failed /\ Continue("transform")
    /\ UNCHANGED <<export_data_url, zip_content, df, gate_arg, gate_ret, us_events_df,
                   s3_calls, sql_calls>>

\* line 253
Transform ==
    /\ pc = "transform"
    /\ \E fault \in TransformFaults :
          LET got == transform_data(csv_content, fault) IN
          /\ calls' = Append(calls, "transform_data")
          /\ failed' = IF got.error THEN failed \cup {"transform"} ELSE failed
          /\ IF got.raised # "none"
             THEN df' = df /\ Raise(got.raised)
             ELSE df' = got.df /\ Continue("gate")
    /\ UNCHANGED <<export_data_url, zip_content, csv_content, gate_arg, gate_ret,
                   us_events_df, s3_calls, sql_calls>>

\* mutant: the gate's verdict is ignored and the run goes on to the geo stage
GateBranch_ignored(ret) == "geo"

\* lines 254-260: a gate that returns False sends the run to the quarantine
\* upload, one that returns True to the geo stage
GateBranch(ret) == IF ret = "True" THEN "geo" ELSE "quarantine"

\* line 254: `df is None or not data_quality_checks(df)`; df is the object the
\* gate mutates
Gate ==
    /\ pc = "gate"
    /\ IF df.kind = "None"
       THEN /\ UNCHANGED <<df, gate_arg, gate_ret, calls>>
            /\ failed' = failed
            /\ Continue("quarantine")
       ELSE LET got == data_quality_checks(df) IN
            /\ gate_arg' = df
            /\ gate_ret' = got.ret
            /\ df' = got.df
            /\ calls' = Append(calls, "data_quality_checks")
            /\ failed' = IF got.ret = "True" THEN failed ELSE failed \cup {"validation"}
            /\ IF got.ret = "KeyError" THEN Raise("KeyError")
               ELSE Continue(GateBranch(got.ret))
    /\ UNCHANGED <<export_data_url, zip_content, csv_content, us_events_df,
                   s3_calls, sql_calls>>

\* lines 255-258: upload_to_s3 (lines 61-69) logs whatever the upload raises
Quarantine ==
    /\ pc = "quarantine"
    /\ \E ok \in BOOLEAN :
          /\ s3_calls' = Append(s3_calls, [df |-> df, key |-> QuarantineKey, ok |-> ok])
          /\ failed' = IF ok THEN failed ELSE failed \cup {"quarantine"}
    /\ calls' = Append(calls, "upload_to_s3")
    /\ Return
    /\ UNCHANGED <<export_data_url, zip_content, csv_content, df, gate_arg, gate_ret,
                   us_events_df, sql_calls>>

\* mutant: a failed geo stage is routed to the quarantine upload
GeoBranch_quarantine(result) == IF result.kind # "None" THEN "load" ELSE "quarantine"

\* mutant: an empty join result is treated like an error and not loaded
GeoBranch_skipEmpty(result) ==
    IF result.kind # "None" /\ result.rows # <<>> THEN "load" ELSE "finish"

\* line 261: the loader runs when the geo stage returned a table
GeoBranch(result) == IF result.kind # "None" THEN "load" ELSE "finish"

\* lines 260-261
Geo ==
    /\ pc = "geo"
    /\ \E boundaries \in BoundarySets, fault \in BOOLEAN :
          LET got == geospatial_processing(df, boundaries, fault) IN
          /\ us_events_df' = got
          /\ failed' = IF got.kind = "None" THEN failed \cup {"geo"} ELSE failed
          /\ Continue(GeoBranch(got))
    /\ calls' = Append(calls, "geospatial_processing")
    /\ UNCHANGED <<export_data_url, zip_content, csv_content, df, gate_arg, gate_ret,
                   s3_calls, sql_calls>>

\* line 262: push_to_postgis (lines 226-232) logs whatever to_sql raises
Load ==
    /\ pc = "load"
    /\ \E ok \in BOOLEAN :
          /\ sql_calls' = Append(sql_calls, [rows |-> us_events_df.rows, ok |-> ok])
          /\ failed' = IF ok THEN failed ELSE failed \cup {"load"}
    /\ calls' = Append(calls, "push_to_postgis")
    /\ Continue("finish")
    /\ UNCHANGED <<export_data_url, zip_content, csv_content, df, gate_arg, gate_ret,
                   us_events_df, s3_calls>>

\* lines 264-266, then the end of the script
Finish ==
    /\ pc = "finish"
    /\ Return
    /\ UNCHANGED <<export_data_url, zip_content, csv_content, df, gate_arg, gate_ret,
                   us_events_df, calls, s3_calls, sql_calls, failed>>

Next ==
    \/ FetchList
    \/ Main
    \/ Download
    \/ Extract
    \/ Transform
    \/ Gate
    \/ Quarantine
    \/ Geo
    \/ Load
    \/ Finish

Spec == Init /\ [][Next]_vars

(***************************************************************************)
(* Vocabulary of the properties: what a finished run did.                  *)
(***************************************************************************)
Done == pc = "exit"
Invoked(fn) == \E i \in DOMAIN calls : calls[i] = fn
GateReturned == gate_ret \in {"True", "False"}

\* the run's final state, in the words of the orchestrator's state machine
Loaded == Done /\ exception = "none" /\ sql_calls # <<>> /\ sql_calls[Len(sql_calls)].ok
QuarantineSunk == Done /\ calls # <<>> /\ calls[Len(calls)] = "upload_to_s3"
Aborted == Done /\ ~Loaded /\ ~Invoked("upload_to_s3")

\* the rows whose key is not null, in order
Survivors(rows) == SelectSeq(rows, LAMBDA r : r.id # NaN)
\* some key occurs on more than one row
Repeats(rows) == Cardinality({rows[i].id : i \in DOMAIN rows}) < Len(rows)
HasNullKey(rows) == \E i \in DOMAIN rows : rows[i].id = NaN

\* the record's (long, lat) point lies strictly inside the polygon
LiesWithin(r, p) ==
    /\ p.lonMin < r.lon /\ r.lon < p.lonMax
    /\ p.latMin < r.lat /\ r.lat < p.latMax

(***************************************************************************)
(* C1.  When the gate returns False because a key is repeated among the    *)
(* surviving rows, the table the run holds is handed to upload_to_s3 under *)
(* the fixed key, the run stops in QuarantineSunk, and neither the geo     *)
(* stage nor the loader is ever invoked.                                   *)
(***************************************************************************)
DuplicateKey == gate_ret = "False" /\ gate_arg.ncols = ExpectedCols /\ Repeats(df.rows)

C1_DuplicateKeyQuarantined ==
    DuplicateKey =>
        /\ ~Invoked("geospatial_processing")
        /\ ~Invoked("push_to_postgis")
        /\ sql_calls = <<>>
        /\ pc \in {"quarantine", "exit"}
        /\ Done =>
              /\ Len(s3_calls) = 1
              /\ s3_calls[1].df = df
              /\ s3_calls[1].key = "data_quality_issues.csv"
              /\ QuarantineSunk

C1_Witness ==
    /\ Done /\ DuplicateKey
    /\ Len(df.rows) < Len(gate_arg.rows)
    /\ s3_calls # <<>>

(***************************************************************************)
(* C2.  When projection or an enrichment step raises inside transform_data,*)
(* the stage yields a failure value, never a table, and no table of that   *)
(* run reaches the gate, the quarantine upload or the loader.              *)
(***************************************************************************)
C2_TransformFailureExplicit ==
    "transform" \in failed =>
        /\ df.kind # "df"
        /\ ~Invoked("data_quality_checks")
        /\ s3_calls = <<>>
        /\ sql_calls = <<>>

(***************************************************************************)
(* C3.  Once the gate has passed, the quarantine upload is never invoked,  *)
(* and a run whose geo stage or loader failed ends in Aborted.             *)
(***************************************************************************)
GeoFailed == us_events_df.kind = "None"
LoadFailed == sql_calls # <<>> /\ ~sql_calls[Len(sql_calls)].ok

C3_NoQuarantineAfterValidated ==
    gate_ret = "True" =>
        /\ s3_calls = <<>>
        /\ ~Invoked("upload_to_s3")
        /\ pc # "quarantine"
        /\ (Done /\ (GeoFailed \/ LoadFailed)) => Aborted

C3_Witness == Done /\ gate_ret = "True" /\ GeoFailed

(***************************************************************************)
(* C4 as stated.  A table without exactly 11 columns fails the gate at     *)
(* once and unmodified, and neither the quarantine upload nor the loader   *)
(* is invoked.                                                             *)
(***************************************************************************)
SchemaMismatch == Invoked("data_quality_checks") /\ gate_arg.ncols # ExpectedCols

C5_NullKeysAlwaysGone == GateReturned => ~HasNullKey(df.rows)

(***************************************************************************)
(* C5 as amended.  After the gate returns on a table of 11 columns, true   *)
(* or false, the table the caller holds has no row with a null key; when   *)
(* it returns false on the column count, the table is as it was handed in, *)
(* null-key rows included.                                                 *)
(***************************************************************************)
C5_NullKeysGoneUnlessMismatch ==
    GateReturned =>
        /\ gate_arg.ncols = ExpectedCols => ~HasNullKey(df.rows)
        /\ gate_arg.ncols # ExpectedCols => df.rows = gate_arg.rows

C5_Witness ==
    /\ gate_ret = "False"
    /\ gate_arg.ncols = ExpectedCols
    /\ HasNullKey(gate_arg.rows)

(***************************************************************************)
(* C6.  On a table of 11 columns the gate returns false exactly when some  *)
(* key occurs more than once among the rows with a non-null key, and then  *)
(* the table is left holding exactly those rows, duplicates included, in   *)
(* their original order.                                                   *)
(***************************************************************************)
C6_FalseIffRepeatedSurvivor ==
    (GateReturned /\ gate_arg.ncols = ExpectedCols) =>
        /\ gate_ret = "False" <=> Repeats(Survivors(gate_arg.rows))
        /\ gate_ret = "False" => df.rows = Survivors(gate_arg.rows)

C6_Witness ==
    /\ gate_ret = "False"
    /\ gate_arg.ncols = ExpectedCols
    /\ Len(gate_arg.rows) = 3
    /\ Len(df.rows) = 2
    /\ gate_arg.rows[2].id = NaN

(***************************************************************************)
(* C7.  When download_file returns no bytes, or the extractor no text, the *)
(* run is over before transform_data runs, and neither the quarantine      *)
(* upload nor the geo stage nor the loader is ever invoked.                *)
(***************************************************************************)
\* None, or nothing in it
NoPayload(x) == x.kind = "None" \/ x.kind = "empty"

C7_NoPayloadAborts ==
    (NoPayload(zip_content) \/ NoPayload(csv_content)) =>
        /\ Aborted
        /\ ~Invoked("transform_data")
        /\ df = NoTable
        /\ ~Invoked("upload_to_s3")
        /\ ~Invoked("geospatial_processing")
        /\ ~Invoked("push_to_postgis")
        /\ s3_calls = <<>>
        /\ sql_calls = <<>>

C7_Witness == Done /\ csv_content.kind = "empty" /\ calls = <<"download_file", "extract_content_from_zip">>

(***************************************************************************)
(* C8.  A run in which some stage failed ends with a non-zero completion   *)
(* status, and not through an uncaught exception.                          *)
(***************************************************************************)
C8_FailureObservable ==
    (Done /\ failed # {}) => (exit_status # 0 /\ exception = "none")

(***************************************************************************)
(* C9.  The rows the loader receives: one per (record, polygon) pair with  *)
(* the record's (long, lat) point inside the polygon, and nothing else.    *)
(***************************************************************************)
ReceivedIsJoin ==
    /\ Len(sql_calls) = 1
    /\ LET got == sql_calls[1].rows
           polys == us_events_df.boundaries
       IN /\ \A i \in DOMAIN df.rows, j \in DOMAIN polys :
                Cardinality({k \in DOMAIN got : got[k].id = df.rows[i].id
                                                /\ got[k].index_right = j})
                  = IF LiesWithin(df.rows[i], polys[j]) THEN 1 ELSE 0
          /\ \A k \in DOMAIN got :
                \E i \in DOMAIN df.rows, j \in DOMAIN polys :
                    /\ got[k].id = df.rows[i].id
                    /\ got[k].lon = df.rows[i].lon
                    /\ got[k].lat = df.rows[i].lat
                    /\ got[k].index_right = j
                    /\ got[k].region = polys[j].name

GeoSucceeded == gate_ret = "True" /\ us_events_df.kind = "df"

(***************************************************************************)
(* C9 as stated.  For every batch that passed the gate and whose geo stage *)
(* succeeded, the loader receives exactly the join rows and the run        *)
(* completes in Loaded.                                                    *)
(***************************************************************************)
C9_JoinLoaded ==
    (Done /\ GeoSucceeded) => (ReceivedIsJoin /\ Loaded)

(***************************************************************************)
(* C9 as amended.  For every batch that passed the gate and whose geo      *)
(* stage succeeded, the loader receives exactly the join rows; the run     *)
(* completes in Loaded when the append succeeds and in Aborted when the    *)
(* append fails.                                                           *)
(***************************************************************************)
C9_JoinReceived ==
    (Done /\ GeoSucceeded) =>
        /\ ReceivedIsJoin
        /\ sql_calls[1].ok => Loaded
        /\ ~sql_calls[1].ok => Aborted

C9_Witness ==
    /\ Loaded
    /\ Len(df.rows) = 2
    /\ Len(us_events_df.boundaries) = 2
    /\ Len(sql_calls[1].rows) = 2
    /\ sql_calls[1].rows[1].id = sql_calls[1].rows[2].id

(***************************************************************************)
(* C10.  The loader is invoked at most once, and exactly in the runs whose *)
(* geo stage returned a table; an empty table is still handed to it.       *)
(***************************************************************************)
LoaderIffGeoResult ==
    /\ Len(sql_calls) <= 1
    /\ sql_calls # <<>> => us_events_df.kind = "df"
    /\ Done => (Invoked("push_to_postgis") <=> us_events_df.kind = "df")
    /\ Done => (Len(sql_calls) = 1 <=> us_events_df.kind = "df")
    /\ (Done /\ us_events_df.kind = "df" /\ us_events_df.rows = <<>>) =>
          sql_calls[1].rows = <<>>

(***************************************************************************)
(* C10 as stated.  ... and a run whose geo stage returned a table with no  *)
(* rows reaches Loaded.                                                    *)
(***************************************************************************)
C10_LoaderIffGeoResultLoaded ==
    /\ LoaderIffGeoResult
    /\ (Done /\ us_events_df.kind = "df" /\ us_events_df.rows = <<>>) => Loaded

(***************************************************************************)
(* C10 as amended.  ... and a run whose geo stage returned a table with no *)
(* rows reaches Loaded when the (empty) append succeeds.                   *)
(***************************************************************************)
C10_LoaderIffGeoResult ==
    /\ LoaderIffGeoResult
    /\ (Done /\ us_events_df.kind = "df" /\ us_events_df.rows = <<>> /\ sql_calls[1].ok)
          => Loaded

C10_Witness ==
    /\ Loaded
    /\ us_events_df.kind = "df"
    /\ us_events_df.rows = <<>>
    /\ df.rows # <<>>
    /\ sql_calls = <<[rows |-> <<>>, ok |-> TRUE]>>

====
